---- MODULE Spec2Model ----
(***************************************************************************)
(* Model of scraper-new.js: scrapeTunebatData (browser session, retry     *)
(* loop, in-page field extractor, recommendation parser, result assembly). *)
(*                                                                         *)
(* Text is modelled as a sequence of whitespace-separated tokens; a JS     *)
(* string is the empty string exactly when its token sequence is empty.    *)
(***************************************************************************)
EXTENDS Integers, Sequences, FiniteSets, TLC

\* ------------------------------------------------------------------ bounds
MaxElems == 2       \* elements of a page in the structural family
MaxText == 3        \* tokens of body text in the text family
MaxFrags == 5       \* recommendation fragments in the fragment family
MaxLoopElems == 1   \* elements of the pages the retry loop may load
MaxSlug == 4        \* characters of a song name given to fmt
MaxImgs == 3        \* images of a page in the image family
MaxLogins == 3      \* /login requests the server handles
MaxClock == 5       \* minutes the clock runs

\* ------------------------------------------------------- generic helpers
Range(s) == {s[i] : i \in 1..Len(s)}

SeqsUpTo(S, n) == UNION {[1..k -> S] : k \in 0..n}

MinOf(S) == CHOOSE i \in S : \A j \in S : i <= j

RECURSIVE Flatten(_)
Flatten(ss) == IF ss = <<>> THEN <<>> ELSE Head(ss) \o Flatten(Tail(ss))

\* JS values that are not strings or records of the model
Null == [isNull |-> TRUE]
Undefined == "<undefined>"
EmptyObject == [isEmptyObject |-> TRUE]

\* --------------------------------------------------------------- fmt, url
\* Character classes of the slug function: \w, \s, "-", anything else.
WordCh == {"a", "b", "_"}
SpaceCh == {" "}
HyphenCh == {"-"}
PunctCh == {"!"}

\* .replace(/[^\w\s-]/g, '')
RECURSIVE StripOther(_)
StripOther(s) ==
    IF s = <<>> THEN <<>>
    ELSE IF Head(s) \in WordCh \cup SpaceCh \cup HyphenCh
         THEN <<Head(s)>> \o StripOther(Tail(s))
         ELSE StripOther(Tail(s))

\* .replace(/\s+/g, '-') and .replace(/-+/g, '-'): every maximal run of
\* characters of class C becomes one hyphen.
RECURSIVE RunsToHyphen(_, _)
RunsToHyphen(s, C) ==
    IF s = <<>> THEN <<>>
    ELSE IF Head(s) \in C
         THEN IF Len(s) > 1 /\ s[2] \in C
              THEN RunsToHyphen(Tail(s), C)
              ELSE <<"-">> \o RunsToHyphen(Tail(s), C)
         ELSE <<Head(s)>> \o RunsToHyphen(Tail(s), C)

\* .replace(/^-+|-+$/g, '')
RECURSIVE TrimLeadingHyphens(_)
TrimLeadingHyphens(s) ==
    IF s # <<>> /\ Head(s) \in HyphenCh THEN TrimLeadingHyphens(Tail(s)) ELSE s

RECURSIVE TrimTrailingHyphens(_)
TrimTrailingHyphens(s) ==
    IF s # <<>> /\ s[Len(s)] \in HyphenCh
    THEN TrimTrailingHyphens(SubSeq(s, 1, Len(s) - 1))
    ELSE s

\* fmt without its last replace: the hyphens at the ends stay
fmt_NoTrim(text) ==
    RunsToHyphen(RunsToHyphen(StripOther(text), SpaceCh), HyphenCh)

\* fmt with the end trimming done before whitespace becomes hyphens
fmt_TrimFirst(text) ==
    RunsToHyphen(RunsToHyphen(
        TrimTrailingHyphens(TrimLeadingHyphens(StripOther(text))), SpaceCh), HyphenCh)

fmt(text) ==
    TrimTrailingHyphens(TrimLeadingHyphens(
        RunsToHyphen(RunsToHyphen(StripOther(text), SpaceCh), HyphenCh)))

\* `https://tunebat.com/Info/${fmt(songName)}-${fmt(artistName)}/${spotifyTrackId}`
BuildUrl(artistName, songName, spotifyTrackId) ==
    <<"https://tunebat.com/Info/", fmt(songName) \o <<"-">> \o fmt(artistName),
      "/", spotifyTrackId>>

\* ------------------------------------------------------------ page model
\* A page: elems (the elements the structural selectors can see, in
\* document order, each with tag, class attribute and trimmed text), imgs
\* (image elements outside the recommendation cards), frags (the
\* '.ant-row.pDoqI' recommendation cards) and sig (the HTML contains
\* 'security check' or 'Too Many Requests').

\* Substrings of a class attribute that the [class*="..."] selectors test.
ClassSubstrings(cls) ==
    CASE cls = "song-title" -> {"title"}
      [] cls = "artist-name" -> {"artist", "name"}
      [] cls = "album-name" -> {"album", "name"}
      [] cls = "performer" -> {"performer"}
      [] OTHER -> {}

TagSel(t) == [kind |-> "tag", v |-> t]
ClassSel(c) == [kind |-> "class", v |-> c]
ClassHasSel(c) == [kind |-> "classHas", v |-> c]

Matches(el, sel) ==
    CASE sel.kind = "tag" -> el.tag = sel.v
      [] sel.kind = "class" -> el.cls = sel.v
      [] sel.kind = "classHas" -> sel.v \in ClassSubstrings(el.cls)

NoElement == [isNoElement |-> TRUE]

\* document.querySelector(selector): first match in document order
QuerySelector(elems, sel) ==
    LET S == {i \in 1..Len(elems) : Matches(elems[i], sel)}
    IN IF S = {} THEN NoElement ELSE elems[MinOf(S)]

\* getElement(selectors): first selector, in order, that selects something
RECURSIVE getElement(_, _)
getElement(elems, selectors) ==
    IF selectors = <<>> THEN NoElement
    ELSE LET element == QuerySelector(elems, Head(selectors))
         IN IF element # NoElement THEN element
            ELSE getElement(elems, Tail(selectors))

\* getText(selectors): element ? element.textContent.trim() : ''
getText(elems, selectors) ==
    LET element == getElement(elems, selectors)
    IN IF element # NoElement THEN element.text ELSE <<>>

TitleSelectors == <<TagSel("h1"), ClassHasSel("title"), ClassHasSel("name")>>
ArtistSelectors ==
    <<ClassSel("artist-name"), ClassHasSel("artist"), ClassHasSel("performer")>>
AlbumSelectors == <<ClassSel("album-name"), ClassHasSel("album")>>

\* ----------------------------------------------------------- token tables
\* What each capture group takes from a token.
\* (\d+) directly after a label: the digits a token starts with
LeadNum(t) ==
    CASE t \in {"120", "75"} -> t
      [] t = "4A" -> "4"
      [] t = "3:45" -> "3"
      [] OTHER -> ""

\* (\d+) directly before a word: the digits a token ends with
TrailNum(t) ==
    CASE t \in {"120", "75"} -> t
      [] t = "/100" -> "100"
      [] t = "3:45" -> "45"
      [] t = "-5" -> "5"
      [] t = "May 1, 2020" -> "2020"
      [] OTHER -> ""

\* ([-]?\d+(?:\.\d+)?) directly before a word
TrailSigned(t) == IF t = "-5" THEN "-5" ELSE TrailNum(t)

\* ([A-G][sharp/flat]?\s*(?:Major|Minor|maj|min))
KeyCap(t) == IF t \in {"F Minor", "C Major"} THEN t ELSE ""

\* (\d+[AB])
CamelotCap(t) == IF t = "4A" THEN t ELSE ""

\* (\d+:\d+)
DurationCap(t) == IF t = "3:45" THEN t ELSE ""

\* ([A-Za-z]+\s+\d{1,2},?\s+\d{4})
DateCap(t) == IF t = "May 1, 2020" THEN t ELSE ""

Cap(name, t) ==
    CASE name = "leadnum" -> LeadNum(t)
      [] name = "trailnum" -> TrailNum(t)
      [] name = "trailsigned" -> TrailSigned(t)
      [] name = "key" -> KeyCap(t)
      [] name = "camelot" -> CamelotCap(t)
      [] name = "duration" -> DurationCap(t)
      [] name = "date" -> DateCap(t)

\* Pattern shapes: a label followed by a capture; a capture anywhere; a
\* capture followed (after an optional middle token) by a word.
Labelled(labels, cap) == [kind |-> "label", labels |-> labels, cap |-> cap]
Bare(cap) == [kind |-> "bare", cap |-> cap]
NumWord(cap, mid, words) ==
    [kind |-> "numword", cap |-> cap, mid |-> mid, words |-> words]

\* Positions at which the pattern's leftmost match can capture.
MatchPositions(text, pattern) ==
    CASE pattern.kind = "label" ->
           {i \in 1..Len(text) :
               /\ i > 1
               /\ text[i - 1] \in pattern.labels
               /\ Cap(pattern.cap, text[i]) # ""}
      [] pattern.kind = "bare" ->
           {i \in 1..Len(text) : Cap(pattern.cap, text[i]) # ""}
      [] pattern.kind = "numword" ->
           {i \in 1..Len(text) :
               /\ Cap(pattern.cap, text[i]) # ""
               /\ \/ i + 1 <= Len(text) /\ text[i + 1] \in pattern.words
                  \/ /\ i + 2 <= Len(text)
                     /\ text[i + 1] \in pattern.mid
                     /\ text[i + 2] \in pattern.words}

\* findText(pattern): match ? match[1].trim() : ''
findText(text, pattern) ==
    LET S == MatchPositions(text, pattern)
    IN IF S = {} THEN "" ELSE Cap(pattern.cap, text[MinOf(S)])

Percent(word) == NumWord("trailnum", {"/100"}, {word})

\* The table of lines 170-184, in source order.
FieldPatterns ==
    << <<"key", <<Labelled({"Key:"}, "key"), Bare("key")>> >>,
       <<"camelot", <<Labelled({"Camelot:"}, "camelot"), Bare("camelot")>> >>,
       <<"bpm", <<Labelled({"BPM:"}, "leadnum"), Labelled({"Tempo:"}, "leadnum"),
                  NumWord("trailnum", {}, {"BPM", "BPM:"})>> >>,
       <<"duration", <<Labelled({"Duration:"}, "duration")>> >>,
       <<"releaseDate", <<Labelled({"Release Date:"}, "date")>> >>,
       <<"popularity", <<Percent("Popularity")>> >>,
       <<"energy", <<NumWord("trailnum", {"/100"}, {"Energy", "Energy:"})>> >>,
       <<"danceability", <<Percent("Danceability")>> >>,
       <<"happiness", <<Percent("Happiness")>> >>,
       <<"acousticness", <<Percent("Acousticness")>> >>,
       <<"instrumentalness", <<Percent("Instrumentalness")>> >>,
       <<"liveness", <<Percent("Liveness")>> >>,
       <<"speechiness", <<Percent("Speechiness")>> >>,
       <<"loudness", <<NumWord("trailsigned", {"dB"}, {"Loudness"})>> >> >>

PatternFields == {FieldPatterns[k][1] : k \in 1..Len(FieldPatterns)}

PatternsOf(key) ==
    FieldPatterns[CHOOSE k \in 1..Len(FieldPatterns) : FieldPatterns[k][1] = key][2]

\* mutant: the field has no '' default in the data object
RECURSIVE FirstValue_NoDefault(_, _)
FirstValue_NoDefault(text, patterns) ==
    IF patterns = <<>> THEN Undefined
    ELSE LET value == findText(text, Head(patterns))
         IN IF value # "" THEN value ELSE FirstValue_NoDefault(text, Tail(patterns))

\* mutant: the pattern whose match stands first in the text wins
FirstValue_Leftmost(text, patterns) ==
    LET M == {k \in 1..Len(patterns) : MatchPositions(text, patterns[k]) # {}}
        At(k) == MinOf(MatchPositions(text, patterns[k]))
    IN IF M = {} THEN ""
       ELSE findText(text, patterns[CHOOSE k \in M : \A j \in M : At(k) <= At(j)])

\* for (const pattern of patterns) { value = findText(pattern);
\*   if (value) { data[key] = value; break; } }   -- '' when none matches
RECURSIVE FirstValue(_, _)
FirstValue(text, patterns) ==
    IF patterns = <<>> THEN ""
    ELSE LET value == findText(text, Head(patterns))
         IN IF value # "" THEN value ELSE FirstValue(text, Tail(patterns))

\* /Explicit:\s*Yes/i.test(document.body.textContent)
ExplicitTest(text) ==
    \E i \in 1..Len(text) : i > 1 /\ text[i - 1] = "Explicit:" /\ text[i] = "Yes"

\* ------------------------------------------------- recommendation parser
\* A card: title, artist (strings), anchors (the hrefs of its '.NWuk-'
\* anchors, each already cut at '/'), cells (the '.lAjUd' texts), img (the
\* src of its first image, '' when it has none), throws (reading the card
\* raises inside the try block).
SpotifyHosts == {"open.spotify.com", "spotify.com"}

\* track.querySelector('.NWuk-[href*="spotify.com"]')?.href || ''
SpotifyLink(track) ==
    LET S == {k \in 1..Len(track.anchors) :
                 Range(track.anchors[k]) \cap SpotifyHosts # {}}
    IN IF S = {} THEN <<"">> ELSE track.anchors[MinOf(S)]

\* spotifyLink.split('/').pop()
TrackId(track) == LET parts == SpotifyLink(track) IN parts[Len(parts)]

\* track.querySelectorAll('.lAjUd')[k]?.textContent?.trim() || ''
Cell(track, k) == IF k <= Len(track.cells) THEN track.cells[k] ELSE ""

RecommendationEntry(track) ==
    [title |-> track.title, artist |-> track.artist, spotifyId |-> TrackId(track),
     key |-> Cell(track, 1), bpm |-> Cell(track, 2), camelot |-> Cell(track, 3),
     popularity |-> Cell(track, 4), albumArt |-> track.img]

\* mutant: the entry is pushed without the `if (trackId)` test
PushRecommendation_NoIdCheck(recommendations, track) ==
    IF track.throws THEN recommendations
    ELSE Append(recommendations, RecommendationEntry(track))

\* try { ...; if (trackId) recommendations.push({...}) } catch (e) { log }
PushRecommendation(recommendations, track) ==
    IF track.throws THEN recommendations
    ELSE IF TrackId(track) # "" THEN Append(recommendations, RecommendationEntry(track))
    ELSE recommendations

\* recommendedTracks.forEach(track => ...)
RECURSIVE ParseFrom(_, _)
ParseFrom(recommendations, tracks) ==
    IF tracks = <<>> THEN recommendations
    ELSE ParseFrom(PushRecommendation(recommendations, Head(tracks)), Tail(tracks))

ParseRecommendations(tracks) == ParseFrom(<<>>, tracks)

\* ------------------------------------------------------------- album art
AltHasAlbum(alt) == alt \in {"album cover", "Album cover"}
SrcHasAlbum(src) == src \in {"/album/a.png"}

\* the images of the document, in document order
DocumentImages(page) ==
    page.imgs \o
    Flatten([k \in 1..Len(page.frags) |->
               IF page.frags[k].img = "" THEN <<>>
               ELSE <<[alt |-> "", src |-> page.frags[k].img]>>])

\* "album" in any letter case inside the string
HasAlbumAnyCase(str) ==
    str \in {"album cover", "Album cover", "ALBUM COVER", "/album/a.png", "/Album/b.png"}

\* mutant: the three attribute tests ignore letter case
AlbumArt_AnyCase(page) ==
    LET images == DocumentImages(page)
        S == {k \in 1..Len(images) :
                 HasAlbumAnyCase(images[k].alt) \/ HasAlbumAnyCase(images[k].src)}
    IN IF S = {} THEN "" ELSE images[MinOf(S)].src

\* getElement('img[alt*="album"], img[alt*="Album"], img[src*="album"]')
AlbumArt(page) ==
    LET images == DocumentImages(page)
        S == {k \in 1..Len(images) :
                 AltHasAlbum(images[k].alt) \/ SrcHasAlbum(images[k].src)}
    IN IF S = {} THEN "" ELSE images[MinOf(S)].src

\* ------------------------------------------------------ the page callback
NonEmpty(strs) == SelectSeq(strs, LAMBDA x : x # "")

FragText(track) == NonEmpty(<<track.title, track.artist>> \o track.cells)

\* document.body.textContent
BodyText(page) ==
    Flatten([k \in 1..Len(page.elems) |-> page.elems[k].text]) \o
    Flatten([k \in 1..Len(page.frags) |-> FragText(page.frags[k])])

\* mutant: metaResults.every(r => r)
MetaFound_Every(page) ==
    /\ getText(page.elems, TitleSelectors) # <<>>
    /\ getText(page.elems, ArtistSelectors) # <<>>
    /\ getText(page.elems, AlbumSelectors) # <<>>

\* metaResults.some(r => r)
MetaFound(page) ==
    \/ getText(page.elems, TitleSelectors) # <<>>
    \/ getText(page.elems, ArtistSelectors) # <<>>
    \/ getText(page.elems, AlbumSelectors) # <<>>

PatternValue(page, key) == FirstValue(BodyText(page), PatternsOf(key))

\* The function passed to page.evaluate (lines 105-230).
Extract(page) ==
    IF ~MetaFound(page) THEN Null
    ELSE [title |-> getText(page.elems, TitleSelectors),
          artist |-> getText(page.elems, ArtistSelectors),
          album |-> getText(page.elems, AlbumSelectors),
          key |-> PatternValue(page, "key"),
          camelot |-> PatternValue(page, "camelot"),
          bpm |-> PatternValue(page, "bpm"),
          duration |-> PatternValue(page, "duration"),
          releaseDate |-> PatternValue(page, "releaseDate"),
          explicit |-> ExplicitTest(BodyText(page)),
          popularity |-> PatternValue(page, "popularity"),
          energy |-> PatternValue(page, "energy"),
          danceability |-> PatternValue(page, "danceability"),
          happiness |-> PatternValue(page, "happiness"),
          acousticness |-> PatternValue(page, "acousticness"),
          instrumentalness |-> PatternValue(page, "instrumentalness"),
          liveness |-> PatternValue(page, "liveness"),
          speechiness |-> PatternValue(page, "speechiness"),
          loudness |-> PatternValue(page, "loudness"),
          albumArt |-> AlbumArt(page),
          recommendations |-> ParseRecommendations(page.frags)]

\* ------------------------------------------------------- bounded inputs
Elem(tag, cls, text) == [tag |-> tag, cls |-> cls, text |-> text]

MkPage(elems, imgs, frags, sig) ==
    [elems |-> elems, imgs |-> imgs, frags |-> frags, sig |-> sig]

ElemKinds ==
    {<<"h1", "">>, <<"div", "song-title">>, <<"div", "artist-name">>,
     <<"div", "album-name">>, <<"div", "performer">>, <<"div", "">>}

ElemTexts == {<<>>, <<"x">>, <<"120", "BPM">>}

Elems == {Elem(k[1], k[2], t) : k \in ElemKinds, t \in ElemTexts}

\* pages that vary the elements the structural selectors see
StructPage(p) ==
    \E k \in 0..MaxElems : \E es \in [1..k -> Elems] :
        p = MkPage(es, <<>>, <<>>, FALSE)

TextTokens ==
    {"x", "Key:", "F Minor", "C Major", "Camelot:", "4A", "BPM:", "Tempo:", "BPM",
     "120", "75", "/100", "Energy", "Energy:", "Loudness", "-5", "Explicit:", "Yes"}

\* pages that vary the body text, with and without a title
TextPage(p) ==
    \E k \in 0..MaxText : \E t \in [1..k -> TextTokens] :
        \E hs \in {<<>>, <<Elem("h1", "", <<"x">>)>>} :
            p = MkPage(hs \o <<Elem("div", "", t)>>, <<>>, <<>>, FALSE)

TrackLink(id) == <<"https:", "", "open.spotify.com", "track", id>>

Frag(title, anchors, cells, img, throws) ==
    [title |-> title, artist |-> "", anchors |-> anchors, cells |-> cells,
     img |-> img, throws |-> throws]

FragKinds ==
    {Frag("x", <<TrackLink("abc")>>, <<>>, "", FALSE),
     Frag("x", <<<<"https:", "", "example.com", "t", "zzz">>, TrackLink("def")>>,
          <<>>, "/r.png", FALSE),
     Frag("x", <<>>, <<>>, "", FALSE),
     Frag("x", <<TrackLink("")>>, <<>>, "", FALSE),
     Frag("x", <<TrackLink("ghi")>>, <<>>, "", TRUE)}

\* pages that vary the recommendation cards
FragPage(p) ==
    \E k \in 1..MaxFrags : \E fs \in [1..k -> FragKinds] :
        p = MkPage(<<Elem("h1", "", <<"x">>)>>, <<>>, fs, FALSE)

Img(alt, src) == [alt |-> alt, src |-> src]

ImgKinds ==
    {Img("photo", "/x.png"), Img("album cover", "/c1.png"), Img("Album cover", "/c2.png"),
     Img("ALBUM COVER", "/c3.png"), Img("", "/album/a.png"), Img("", "/Album/b.png")}

\* pages with a title that vary the images
ImgPage(p) ==
    \E k \in 0..MaxImgs : \E is \in [1..k -> ImgKinds] :
        p = MkPage(<<Elem("h1", "", <<"x">>)>>, is, <<>>, FALSE)

\* a page with a title whose text has "Key: F Minor", "120 BPM" and
\* "Energy: 75 Energy"
ExamplePage ==
    MkPage(<<Elem("h1", "", <<"x">>),
             Elem("div", "", <<"Key:", "F Minor", "120", "BPM", "Energy:", "75",
                               "Energy">>)>>, <<>>, <<>>, FALSE)

ExtractInput(p) ==
    StructPage(p) \/ TextPage(p) \/ FragPage(p) \/ ImgPage(p) \/ p = ExamplePage

LoopElems ==
    {Elem(k[1], k[2], t) :
        k \in {<<"h1", "">>, <<"div", "artist-name">>, <<"div", "">>},
        t \in ElemTexts}

LoopPages ==
    {MkPage(es, <<>>, <<>>, sig) :
        es \in SeqsUpTo(LoopElems, MaxLoopElems), sig \in BOOLEAN}

\* a block page, a page without metadata and a page with a title
ConcPages ==
    {MkPage(<<>>, <<>>, <<>>, TRUE),
     MkPage(<<>>, <<>>, <<>>, FALSE),
     MkPage(<<Elem("h1", "", <<"x">>)>>, <<>>, <<>>, FALSE)}

\* what a site can answer to page.goto: any of LoopPages, any of ConcPages,
\* or the page with a title on every load
Served(s) ==
    CASE s = "varied" -> LoopPages
      [] s = "mixed" -> ConcPages
      [] s = "titled" -> {p \in ConcPages : ~p.sig /\ p.elems # <<>>}
      [] s = "none" -> {}

ConcSites == {"mixed", "titled"}

\* ------------------------------------------------------------------ state
VARIABLES
    args,       \* per invocation: the arguments of the call
    pc,         \* per invocation: the await (or statement) it stands at
    browser,    \* per invocation: "none", "open" or "closed"
    page,       \* per invocation: the page its browser tab has loaded
    url,        \* per invocation: const url (line 75)
    retries,    \* per invocation: let retries (line 79)
    pageData,   \* per invocation: let pageData (line 80)
    err,        \* per invocation: message of the exception being handled
    result,     \* per invocation: the value of the return statement reached
    outcome,    \* per invocation: how the returned promise settled
    log,        \* per invocation: the calls it made and how each ended
    debugFile,  \* debug.png: the invocation that wrote it last
    xpage,      \* extractor harness: the page given to the callback
    xdata,      \* extractor harness: what the callback returned
    fsong,      \* slug harness: the song name given to fmt
    fartist,    \* slug harness: the artist name given to fmt
    fslugs,     \* slug harness: fmt(fsong), then fmt of that
    fpath,      \* slug harness: the url built from fsong and fartist
    faults,     \* environment: the calls that can throw in this run
    site,       \* environment: the kind of site this run scrapes (see Served)
    stateStore, \* const stateStore (line 302): the keys of the Map
    issued,     \* per state value: how many times /login has issued it
    cb,         \* per /callback request: where it stands and what it did
    userPlaylists, \* const userPlaylists (line 303): per user, entry or none
    remote,     \* per user: the playlists the Spotify account has
    clock,      \* Date.now(), in minutes
    gc          \* per getOrCreatePlaylist call: its locals and what it did

svars == <<args, pc, browser, page, url, retries, pageData, err, result, outcome,
           log, debugFile>>
xvars == <<xpage, xdata>>
fvars == <<fsong, fartist, fslugs, fpath>>
evars == <<faults, site>>
avars == <<stateStore, issued, cb>>
pvars == <<userPlaylists, remote, clock, gc>>
wvars == <<avars, pvars>>
hvars == <<xvars, fvars, evars, wvars>>
vars == <<svars, hvars>>

Inv == {"i1", "i2"}

NotRun == [isNotRun |-> TRUE]
NoPage == [isNoPage |-> TRUE]
NoUrl == <<>>
NoResult == [isNoResult |-> TRUE]
Pending == [kind |-> "pending"]
Resolved(value) == [kind |-> "resolved", value |-> value]
Rejected(message) == [kind |-> "rejected", error |-> message]

Attempts == 3

Request(artistName, songName, spotifyTrackId) ==
    [artistName |-> artistName, songName |-> songName,
     spotifyTrackId |-> spotifyTrackId]

\* the strings a caller passes; Undefined stands for a missing argument
Requests ==
    {Request(<<"a", " ", "b">>, <<"-", "b", "!", " ", " ", "a">>, "id1"),
     Request(<<"a">>, Undefined, "id2")}

\* err.message of what each call throws
ErrMsg(op) ==
    CASE op = "which" -> "Command failed: which chromium"
      [] op = "launch" -> "Failed to launch the browser process!"
      [] op = "newPage" -> "Protocol error (Target.createTarget): Target closed"
      [] op = "setViewport" -> "Protocol error (Emulation.setDeviceMetricsOverride)"
      [] op = "setUserAgent" -> "Protocol error (Network.setUserAgentOverride)"
      [] op = "setExtraHTTPHeaders" -> "Protocol error (Network.setExtraHTTPHeaders)"
      [] op = "evaluateOnNewDocument" ->
           "Protocol error (Page.addScriptToEvaluateOnNewDocument)"
      [] op = "fmt" -> "Cannot read properties of undefined (reading 'replace')"
      [] op = "goto" -> "Navigation timeout of 30000 ms exceeded"
      [] op = "content" -> "Execution context was destroyed"
      [] op = "screenshot" -> "EACCES: permission denied, open 'debug.png'"
      [] op = "evaluate" -> "Cannot read properties of null (reading 'textContent')"
      [] op = "close" -> "Protocol error (Browser.close): Target closed"

\* every call of the function that can throw
Faults ==
    {"which", "launch", "newPage", "setViewport", "setUserAgent",
     "setExtraHTTPHeaders", "evaluateOnNewDocument", "fmt", "goto", "content",
     "screenshot", "evaluate", "close"}

\* the harness variables while no harness runs
NoExtract == xpage = NoPage /\ xdata = NotRun
NoSlug == fsong = <<>> /\ fartist = <<>> /\ fslugs = <<>> /\ fpath = NoUrl

\* the state values generateRandomString can return, the /callback requests
States == {"s1", "s2"}
Cb == {"c1", "c2", "c3"}

\* req.query.state || null, when the query has no state
NoState == "<null>"

\* a /callback request that has not arrived yet
NewCallback == [pc |-> "new", state |-> NoState, did |-> <<>>, out |-> "none"]

\* the server while no request has been made
NoAuth ==
    /\ stateStore = {}
    /\ issued = [s \in States |-> 0]
    /\ cb = [c \in Cb |-> NewCallback]
\* the users with a cache entry, the getOrCreatePlaylist calls
Users == {"u1", "u2"}
G == {"g1", "g2"}

playlistRefreshInterval == 5

\* a playlist name: len copies of one character, then "..." or not
Name(ch, len, dots) == [ch |-> ch, len |-> len, dots |-> dots]
NameLength(n) == n.len + (IF n.dots THEN 3 ELSE 0)
Playlist(name, id) == [name |-> name, id |-> id]

NoEntry == [isNoEntry |-> TRUE]
Entry(timestamp, playlists) == [timestamp |-> timestamp, playlists |-> playlists]

\* a getOrCreatePlaylist call that has not been made yet
NewCall ==
    [pc |-> "new", user |-> "u1", name |-> Name("a", 0, FALSE), force |-> FALSE,
     now |-> 0, url |-> 0, acc |-> <<>>, playlists |-> <<>>, did |-> <<>>,
     out |-> "none"]

NoPlaylists ==
    /\ userPlaylists = [u \in Users |-> NoEntry]
    /\ remote = [u \in Users |-> <<>>]
    /\ clock = 0
    /\ gc = [g \in G |-> NewCall]
NoServer == NoAuth /\ NoPlaylists

Set(f, i, v) == [f EXCEPT ![i] = v]
Logged(i, op, res) == log' = [log EXCEPT ![i] = Append(@, <<op, res>>)]

Init ==
    /\ args \in [Inv -> Requests]
    /\ args["i2"] = args["i1"]
    /\ pc = [i \in Inv |-> IF i = "i1" THEN "which" ELSE "idle"]
    /\ browser = [i \in Inv |-> "none"]
    /\ page = [i \in Inv |-> NoPage]
    /\ url = [i \in Inv |-> NoUrl]
    /\ retries = [i \in Inv |-> 0]
    /\ pageData = [i \in Inv |-> Null]
    /\ err = [i \in Inv |-> Undefined]
    /\ result = [i \in Inv |-> NoResult]
    /\ outcome = [i \in Inv |-> Pending]
    /\ log = [i \in Inv |-> <<>>]
    /\ debugFile = "absent"
    /\ faults = Faults
    /\ site = "varied"
    /\ NoExtract
    /\ NoSlug
    /\ NoServer

\* ------------------------------------------------ scrapeTunebatData steps
\* An exception outside the try block: the promise rejects (lines 6-26).
Reject(i, op) ==
    /\ op \in faults
    /\ pc' = Set(pc, i, "done")
    /\ outcome' = Set(outcome, i, Rejected(ErrMsg(op)))
    /\ Logged(i, op, "throw")

\* await promisify(exec)("which chromium")   (line 6)
Which(i) ==
    /\ pc[i] = "which"
    /\ \/ /\ pc' = Set(pc, i, "launch")
          /\ Logged(i, "which", "ok")
          /\ UNCHANGED outcome
       \/ Reject(i, "which")
    /\ UNCHANGED <<args, browser, page, url, retries, pageData, err, result,
                   debugFile, hvars>>

\* await puppeteer.launch({...})   (lines 7-26)
Launch(i) ==
    /\ pc[i] = "launch"
    /\ \/ /\ pc' = Set(pc, i, "newPage")
          /\ browser' = Set(browser, i, "open")
          /\ Logged(i, "launch", "ok")
          /\ UNCHANGED outcome
       \/ Reject(i, "launch") /\ UNCHANGED browser
    /\ UNCHANGED <<args, page, url, retries, pageData, err, result, debugFile, hvars>>

\* An exception inside the outer try and outside the loop's try: control
\* goes to the outer catch (line 258).
ThrowOuter(i, op) ==
    /\ pc' = Set(pc, i, "fatal")
    /\ err' = Set(err, i, ErrMsg(op))
    /\ Logged(i, op, "throw")

\* One awaited page-setup call between lines 29 and 66.
SetupStep(i, op, next) ==
    /\ pc[i] = op
    /\ \/ /\ pc' = Set(pc, i, next)
          /\ Logged(i, op, "ok")
          /\ UNCHANGED err
       \/ op \in faults /\ ThrowOuter(i, op)
    /\ UNCHANGED <<args, browser, page, url, retries, pageData, result, outcome,
                   debugFile, hvars>>

NewPage(i) == SetupStep(i, "newPage", "setViewport")
SetViewport(i) == SetupStep(i, "setViewport", "setUserAgent")
SetUserAgent(i) == SetupStep(i, "setUserAgent", "setExtraHTTPHeaders")
SetExtraHTTPHeaders(i) == SetupStep(i, "setExtraHTTPHeaders", "evaluateOnNewDocument")
EvaluateOnNewDocument(i) == SetupStep(i, "evaluateOnNewDocument", "fmt")

\* const url = ...; let retries = 3; let pageData = null;   (lines 69-80)
FormatUrl(i) ==
    /\ pc[i] = "fmt"
    /\ IF args[i].songName = Undefined \/ args[i].artistName = Undefined
       THEN /\ ThrowOuter(i, "fmt")
            /\ UNCHANGED <<url, retries, pageData>>
       ELSE /\ url' = Set(url, i, BuildUrl(args[i].artistName, args[i].songName,
                                           args[i].spotifyTrackId))
            /\ retries' = Set(retries, i, Attempts)
            /\ pageData' = Set(pageData, i, Null)
            /\ pc' = Set(pc, i, "while")
            /\ Logged(i, "fmt", "ok")
            /\ UNCHANGED err
    /\ UNCHANGED <<args, browser, page, result, outcome, debugFile, hvars>>

\* while (retries > 0)   (line 82)
While(i) ==
    /\ pc[i] = "while"
    /\ pc' = Set(pc, i, IF retries[i] > 0 THEN "goto" ELSE "return")
    /\ UNCHANGED <<args, browser, page, url, retries, pageData, err, result, outcome,
                   log, debugFile, hvars>>

\* mutant: no try/catch inside the loop, the exception goes to the outer catch
ThrowInner_Escapes(i, op) ==
    /\ op \in faults
    /\ pc' = Set(pc, i, "fatal")
    /\ err' = Set(err, i, ErrMsg(op))
    /\ Logged(i, op, "throw")

\* An exception inside the loop's try: control goes to its catch (line 241).
ThrowInner(i, op) ==
    /\ op \in faults
    /\ pc' = Set(pc, i, "catch")
    /\ err' = Set(err, i, ErrMsg(op))
    /\ Logged(i, op, "throw")

\* await page.goto(url, {waitUntil: 'networkidle0', timeout: 30000})  (84-87)
Goto(i) ==
    /\ pc[i] = "goto"
    /\ \/ \E p \in Served(site) :
             /\ page' = Set(page, i, p)
             /\ pc' = Set(pc, i, "settle")
             /\ Logged(i, "goto", IF p.sig THEN "blockpage" ELSE "page")
             /\ UNCHANGED err
       \/ ThrowInner(i, "goto") /\ UNCHANGED page
    /\ UNCHANGED <<args, browser, url, retries, pageData, result, outcome, debugFile,
                   hvars>>

\* await new Promise(resolve => setTimeout(resolve, 3956 + ...))   (line 90)
Settle(i) ==
    /\ pc[i] = "settle"
    /\ pc' = Set(pc, i, "content")
    /\ Logged(i, "pause", "settle")
    /\ UNCHANGED <<args, browser, page, url, retries, pageData, err, result, outcome,
                   debugFile, hvars>>

\* const content = await page.content(); if (content.includes(...))  (93-94)
Content(i) ==
    /\ pc[i] = "content"
    /\ \/ /\ pc' = Set(pc, i, IF page[i].sig THEN "backoff" ELSE "screenshot")
          /\ Logged(i, "content", IF page[i].sig THEN "sig" ELSE "clean")
          /\ UNCHANGED err
       \/ ThrowInner(i, "content")
    /\ UNCHANGED <<args, browser, page, url, retries, pageData, result, outcome,
                   debugFile, hvars>>

\* mutant: `retries` declared once for the module, not once per call
Backoff_SharedRetries(i) ==
    /\ pc[i] = "backoff"
    /\ Logged(i, "pause", "backoff")
    /\ retries' = [j \in Inv |-> retries[j] - 1]
    /\ pc' = Set(pc, i, "while")
    /\ UNCHANGED <<args, browser, page, url, pageData, err, result, outcome,
                   debugFile, hvars>>

\* mutant: `continue` without `retries--`
Backoff_NoDecrement(i) ==
    /\ pc[i] = "backoff"
    /\ Logged(i, "pause", "backoff")
    /\ pc' = Set(pc, i, "while")
    /\ UNCHANGED <<args, browser, page, url, retries, pageData, err, result, outcome,
                   debugFile, hvars>>

\* await new Promise(... 4000 + ...); retries--; continue;   (lines 96-98)
Backoff(i) ==
    /\ pc[i] = "backoff"
    /\ Logged(i, "pause", "backoff")
    /\ retries' = Set(retries, i, retries[i] - 1)
    /\ pc' = Set(pc, i, "while")
    /\ UNCHANGED <<args, browser, page, url, pageData, err, result, outcome,
                   debugFile, hvars>>

\* await page.screenshot({ path: 'debug.png' })   (line 102)
Screenshot(i) ==
    /\ pc[i] = "screenshot"
    /\ \/ /\ debugFile' = i
          /\ pc' = Set(pc, i, "evaluate")
          /\ Logged(i, "screenshot", "ok")
          /\ UNCHANGED err
       \/ ThrowInner(i, "screenshot") /\ UNCHANGED debugFile
    /\ UNCHANGED <<args, browser, page, url, retries, pageData, result, outcome, hvars>>

\* mutant: no `break` when a record was extracted
AfterEvaluate_NoBreak(i, data) ==
    /\ pageData' = Set(pageData, i, data)
    /\ IF data # Null
       THEN /\ pc' = Set(pc, i, "while")
            /\ Logged(i, "evaluate", "record")
            /\ UNCHANGED retries
       ELSE /\ retries' = Set(retries, i, retries[i] - 1)
            /\ pc' = Set(pc, i, "softPause")
            /\ Logged(i, "evaluate", "null")

\* mutant: after an empty extraction the pause is taken only if attempts remain
AfterEvaluate_PauseIfLeft(i, data) ==
    /\ pageData' = Set(pageData, i, data)
    /\ IF data # Null
       THEN /\ pc' = Set(pc, i, "return")
            /\ Logged(i, "evaluate", "record")
            /\ UNCHANGED retries
       ELSE /\ retries' = Set(retries, i, retries[i] - 1)
            /\ pc' = Set(pc, i, IF retries[i] - 1 > 0 THEN "softPause" ELSE "while")
            /\ Logged(i, "evaluate", "null")

\* if (pageData) break; ...; retries--; (then the pause of line 239)
AfterEvaluate(i, data) ==
    /\ pageData' = Set(pageData, i, data)
    /\ IF data # Null
       THEN /\ pc' = Set(pc, i, "return")
            /\ Logged(i, "evaluate", "record")
            /\ UNCHANGED retries
       ELSE /\ retries' = Set(retries, i, retries[i] - 1)
            /\ pc' = Set(pc, i, "softPause")
            /\ Logged(i, "evaluate", "null")

\* pageData = await page.evaluate(() => {...}); if (pageData) ...  (105-238)
PageEvaluate(i) ==
    /\ pc[i] = "evaluate"
    /\ \/ AfterEvaluate(i, Extract(page[i])) /\ UNCHANGED err
       \/ ThrowInner(i, "evaluate") /\ UNCHANGED <<pageData, retries>>
    /\ UNCHANGED <<args, browser, page, url, result, outcome, debugFile, hvars>>

\* mutant: the page is configured again before the next attempt
SoftPause_Reconfigure(i) ==
    /\ pc[i] = "softPause"
    /\ Logged(i, "pause", "soft")
    /\ pc' = Set(pc, i, "setViewport")
    /\ UNCHANGED <<args, browser, page, url, retries, pageData, err, result, outcome,
                   debugFile, hvars>>

\* await new Promise(... 2500 + ...)   (line 239)
SoftPause(i) ==
    /\ pc[i] = "softPause"
    /\ Logged(i, "pause", "soft")
    /\ pc' = Set(pc, i, "while")
    /\ UNCHANGED <<args, browser, page, url, retries, pageData, err, result, outcome,
                   debugFile, hvars>>

\* mutant: the exception of the last attempt is thrown on to the outer catch
Catch_Rethrow(i) ==
    /\ pc[i] = "catch"
    /\ retries' = Set(retries, i, retries[i] - 1)
    /\ pc' = Set(pc, i, IF retries[i] - 1 > 0 THEN "errPause" ELSE "fatal")
    /\ Logged(i, "catch", "inner")
    /\ UNCHANGED <<args, browser, page, url, pageData, err, result, outcome,
                   debugFile, hvars>>

\* mutant: the catch pauses whether or not attempts remain
Catch_AlwaysPause(i) ==
    /\ pc[i] = "catch"
    /\ retries' = Set(retries, i, retries[i] - 1)
    /\ pc' = Set(pc, i, "errPause")
    /\ Logged(i, "catch", "inner")
    /\ UNCHANGED <<args, browser, page, url, pageData, err, result, outcome,
                   debugFile, hvars>>

\* mutant: the catch takes two attempts off the counter
Catch_DoubleDecrement(i) ==
    /\ pc[i] = "catch"
    /\ retries' = Set(retries, i, retries[i] - 2)
    /\ pc' = Set(pc, i, IF retries[i] - 2 > 0 THEN "errPause" ELSE "while")
    /\ Logged(i, "catch", "inner")
    /\ UNCHANGED <<args, browser, page, url, pageData, err, result, outcome,
                   debugFile, hvars>>

\* catch (err) { log; retries--; if (retries > 0) await pause }   (241-247)
Catch(i) ==
    /\ pc[i] = "catch"
    /\ retries' = Set(retries, i, retries[i] - 1)
    /\ pc' = Set(pc, i, IF retries[i] - 1 > 0 THEN "errPause" ELSE "while")
    /\ Logged(i, "catch", "inner")
    /\ UNCHANGED <<args, browser, page, url, pageData, err, result, outcome,
                   debugFile, hvars>>

\* await new Promise(... 4500 + ...)   (line 245)
ErrPause(i) ==
    /\ pc[i] = "errPause"
    /\ Logged(i, "pause", "error")
    /\ pc' = Set(pc, i, "while")
    /\ UNCHANGED <<args, browser, page, url, retries, pageData, err, result, outcome,
                   debugFile, hvars>>

\* mutant: error is set on every result
LoopResult_ErrorAlways(i) ==
    [success |-> pageData[i] # Null,
     url |-> url[i],
     data |-> IF pageData[i] # Null THEN pageData[i] ELSE EmptyObject,
     error |-> "Failed to extract data",
     debugImagePath |-> "debug.png"]

\* the object of the return statement of lines 250-256
LoopResult(i) ==
    [success |-> pageData[i] # Null,
     url |-> url[i],
     data |-> IF pageData[i] # Null THEN pageData[i] ELSE EmptyObject,
     error |-> IF pageData[i] = Null THEN "Failed to extract data" ELSE Undefined,
     debugImagePath |-> "debug.png"]

\* return {...}   (lines 250-256); the finally block runs next
Return(i) ==
    /\ pc[i] = "return"
    /\ result' = Set(result, i, LoopResult(i))
    /\ pc' = Set(pc, i, "close")
    /\ Logged(i, "return", "loop")
    /\ UNCHANGED <<args, browser, page, url, retries, pageData, err, outcome,
                   debugFile, hvars>>

\* the object of the return statement of lines 260-264
FatalResult(i) ==
    [success |-> FALSE, error |-> err[i], debugImagePath |-> "debug.png"]

\* mutant: no finally block, the outer catch returns without closing
Fatal_NoClose(i) ==
    /\ pc[i] = "fatal"
    /\ result' = Set(result, i, FatalResult(i))
    /\ outcome' = Set(outcome, i, Resolved(FatalResult(i)))
    /\ pc' = Set(pc, i, "done")
    /\ Logged(i, "return", "fatal")
    /\ UNCHANGED <<args, browser, page, url, retries, pageData, err, debugFile, hvars>>

\* catch (err) { console.error; return {...} }   (lines 258-264)
Fatal(i) ==
    /\ pc[i] = "fatal"
    /\ result' = Set(result, i, FatalResult(i))
    /\ pc' = Set(pc, i, "close")
    /\ Logged(i, "return", "fatal")
    /\ UNCHANGED <<args, browser, page, url, retries, pageData, err, outcome,
                   debugFile, hvars>>

\* finally { await browser.close(); }   (lines 265-267): the promise then
\* resolves with the returned object, or rejects when close itself throws
Close(i) ==
    /\ pc[i] = "close"
    /\ browser' = Set(browser, i, "closed")
    /\ pc' = Set(pc, i, "done")
    /\ \/ /\ outcome' = Set(outcome, i, Resolved(result[i]))
          /\ Logged(i, "close", "ok")
       \/ /\ "close" \in faults
          /\ outcome' = Set(outcome, i, Rejected(ErrMsg("close")))
          /\ Logged(i, "close", "throw")
    /\ UNCHANGED <<args, page, url, retries, pageData, err, result, debugFile, hvars>>

Step(i) ==
    \/ Which(i)
    \/ Launch(i)
    \/ NewPage(i)
    \/ SetViewport(i)
    \/ SetUserAgent(i)
    \/ SetExtraHTTPHeaders(i)
    \/ EvaluateOnNewDocument(i)
    \/ FormatUrl(i)
    \/ While(i)
    \/ Goto(i)
    \/ Settle(i)
    \/ Content(i)
    \/ Backoff(i)
    \/ Screenshot(i)
    \/ PageEvaluate(i)
    \/ SoftPause(i)
    \/ Catch(i)
    \/ ErrPause(i)
    \/ Return(i)
    \/ Fatal(i)
    \/ Close(i)

Next == \E i \in Inv : Step(i)

Spec == Init /\ [][Next]_vars

\* every awaited call of an invocation that has one pending completes or
\* throws: no navigation, pause, extraction or close hangs for ever
Fairness == \A i \in Inv : WF_vars(Step(i))

\* one call, any of its awaited calls may throw, on a site of three pages
InitFair ==
    /\ args \in [Inv -> Requests]
    /\ args["i2"] = args["i1"]
    /\ pc = [i \in Inv |-> IF i = "i1" THEN "which" ELSE "idle"]
    /\ browser = [i \in Inv |-> "none"]
    /\ page = [i \in Inv |-> NoPage]
    /\ url = [i \in Inv |-> NoUrl]
    /\ retries = [i \in Inv |-> 0]
    /\ pageData = [i \in Inv |-> Null]
    /\ err = [i \in Inv |-> Undefined]
    /\ result = [i \in Inv |-> NoResult]
    /\ outcome = [i \in Inv |-> Pending]
    /\ log = [i \in Inv |-> <<>>]
    /\ debugFile = "absent"
    /\ faults = Faults
    /\ site = "mixed"
    /\ NoExtract
    /\ NoSlug
    /\ NoServer

SpecFair == InitFair /\ [][Next]_vars /\ Fairness

\* --------------------------------------------- two invocations at once
ConcFaults == {"screenshot"}

\* both calls of scrapeTunebatData are made before either has finished
InitConc ==
    /\ args \in [Inv -> Requests]
    /\ args["i1"].songName # Undefined
    /\ pc = [i \in Inv |-> "which"]
    /\ browser = [i \in Inv |-> "none"]
    /\ page = [i \in Inv |-> NoPage]
    /\ url = [i \in Inv |-> NoUrl]
    /\ retries = [i \in Inv |-> 0]
    /\ pageData = [i \in Inv |-> Null]
    /\ err = [i \in Inv |-> Undefined]
    /\ result = [i \in Inv |-> NoResult]
    /\ outcome = [i \in Inv |-> Pending]
    /\ log = [i \in Inv |-> <<>>]
    /\ debugFile = "absent"
    /\ faults = ConcFaults
    /\ site \in ConcSites
    /\ NoExtract
    /\ NoSlug
    /\ NoServer

SpecConc == InitConc /\ [][Next]_vars

\* ------------------------------------------- extractor applied to a page
InitExtract ==
    /\ ExtractInput(xpage)
    /\ xdata = NotRun
    /\ args = [i \in Inv |-> CHOOSE r \in Requests : r.songName # Undefined]
    /\ pc = [i \in Inv |-> "idle"]
    /\ browser = [i \in Inv |-> "none"]
    /\ page = [i \in Inv |-> NoPage]
    /\ url = [i \in Inv |-> NoUrl]
    /\ retries = [i \in Inv |-> 0]
    /\ pageData = [i \in Inv |-> Null]
    /\ err = [i \in Inv |-> Undefined]
    /\ result = [i \in Inv |-> NoResult]
    /\ outcome = [i \in Inv |-> Pending]
    /\ log = [i \in Inv |-> <<>>]
    /\ debugFile = "absent"
    /\ faults = {}
    /\ site = "none"
    /\ NoSlug
    /\ NoServer

\* the callback of page.evaluate run on xpage
ApplyExtract ==
    /\ xdata = NotRun
    /\ xdata' = Extract(xpage)
    /\ UNCHANGED <<xpage, svars, fvars, evars, wvars>>

NextExtract == ApplyExtract

SpecExtract == InitExtract /\ [][NextExtract]_vars

\* ------------------------------------------------- fmt applied to names
\* no invocation of scrapeTunebatData is running
NoScrape ==
    /\ args = [i \in Inv |-> CHOOSE r \in Requests : r.songName # Undefined]
    /\ pc = [i \in Inv |-> "idle"]
    /\ browser = [i \in Inv |-> "none"]
    /\ page = [i \in Inv |-> NoPage]
    /\ url = [i \in Inv |-> NoUrl]
    /\ retries = [i \in Inv |-> 0]
    /\ pageData = [i \in Inv |-> Null]
    /\ err = [i \in Inv |-> Undefined]
    /\ result = [i \in Inv |-> NoResult]
    /\ outcome = [i \in Inv |-> Pending]
    /\ log = [i \in Inv |-> <<>>]
    /\ debugFile = "absent"
    /\ faults = {}
    /\ site = "none"

SlugChars == WordCh \cup SpaceCh \cup HyphenCh \cup PunctCh

ArtistTexts == {<<>>, <<"a">>, <<"-", "b", " ">>, <<"!", "_">>, <<"-", "!">>}

InitSlug ==
    /\ \E k \in 0..MaxSlug : fsong \in [1..k -> SlugChars]
    /\ fartist \in ArtistTexts
    /\ fslugs = <<>>
    /\ fpath = NoUrl
    /\ NoScrape
    /\ NoExtract
    /\ NoServer

\* fmt(songName)   (lines 69-73)
FmtSong ==
    /\ fslugs = <<>>
    /\ fslugs' = <<fmt(fsong)>>
    /\ UNCHANGED <<fsong, fartist, fpath, svars, xvars, evars, wvars>>

\* fmt given what fmt returned
FmtAgain ==
    /\ Len(fslugs) = 1
    /\ fslugs' = Append(fslugs, fmt(fslugs[1]))
    /\ UNCHANGED <<fsong, fartist, fpath, svars, xvars, evars, wvars>>

\* const url = `https://tunebat.com/Info/${fmt(songName)}-${fmt(artistName)}/...`
ComposeUrl ==
    /\ fpath = NoUrl
    /\ fpath' = BuildUrl(fartist, fsong, "id1")
    /\ UNCHANGED <<fsong, fartist, fslugs, svars, xvars, evars, wvars>>

NextSlug == FmtSong \/ FmtAgain \/ ComposeUrl

SpecSlug == InitSlug /\ [][NextSlug]_vars

\* --------------------------------------------- OAuth login and callback
InitAuth ==
    /\ NoAuth
    /\ NoPlaylists
    /\ NoScrape
    /\ NoExtract
    /\ NoSlug

RECURSIVE SumOver(_, _)
SumOver(f, S) ==
    IF S = {} THEN 0
    ELSE LET x == CHOOSE y \in S : TRUE IN f[x] + SumOver(f, S \ {x})

\* app.get('/login'): generateRandomString may return any value, also one
\* it returned before   (lines 452-463)
Login ==
    /\ SumOver(issued, States) < MaxLogins
    /\ \E s \in States :
          /\ stateStore' = stateStore \cup {s}
          /\ issued' = [issued EXCEPT ![s] = @ + 1]
    /\ UNCHANGED <<cb, svars, xvars, fvars, evars, pvars>>

\* what /callback answers with
Redirect(c, did, out) ==
    cb' = [cb EXCEPT ![c].pc = "sent", ![c].did = @ \o did, ![c].out = out]

\* mutant: /callback without stateStore.delete(state)
CallbackArrive_NoDelete(c) ==
    /\ cb[c].pc = "new"
    /\ \E q \in States \cup {NoState} :
          IF q = NoState \/ q \notin stateStore
          THEN /\ cb' = [cb EXCEPT ![c] = [pc |-> "sent", state |-> q,
                                           did |-> <<"redirect">>,
                                           out |-> "state_mismatch"]]
               /\ UNCHANGED stateStore
          ELSE /\ UNCHANGED stateStore
               /\ cb' = [cb EXCEPT ![c] = [pc |-> "fetch", state |-> q,
                                           did |-> <<"fetch">>, out |-> "none"]]
    /\ UNCHANGED <<issued, svars, xvars, fvars, evars, pvars>>

\* app.get('/callback') up to its first await: req.query.state || null, the
\* test of line 469, stateStore.delete, and the call of fetch (465-490)
CallbackArrive(c) ==
    /\ cb[c].pc = "new"
    /\ \E q \in States \cup {NoState} :
          IF q = NoState \/ q \notin stateStore
          THEN /\ cb' = [cb EXCEPT ![c] = [pc |-> "sent", state |-> q,
                                           did |-> <<"redirect">>,
                                           out |-> "state_mismatch"]]
               /\ UNCHANGED stateStore
          ELSE /\ stateStore' = stateStore \ {q}
               /\ cb' = [cb EXCEPT ![c] = [pc |-> "fetch", state |-> q,
                                           did |-> <<"delete", "fetch">>,
                                           out |-> "none"]]
    /\ UNCHANGED <<issued, svars, xvars, fvars, evars, pvars>>

\* const tokenRes = await fetch(...): it resolves, ok or not, or rejects
\* and the catch answers server_error   (lines 489, 509-512)
FetchSettles(c) ==
    /\ cb[c].pc = "fetch"
    /\ \/ \E ok \in BOOLEAN :
             cb' = [cb EXCEPT ![c].pc = IF ok THEN "json" ELSE "jsonNotOk"]
       \/ Redirect(c, <<"redirect">>, "server_error")
    /\ UNCHANGED <<stateStore, issued, svars, xvars, fvars, evars, pvars>>

\* const data = await tokenRes.json(); if (!tokenRes.ok) ...; cookies;
\* redirect   (lines 490-508)
JsonSettles(c) ==
    /\ cb[c].pc \in {"json", "jsonNotOk"}
    /\ \/ IF cb[c].pc = "jsonNotOk"
          THEN Redirect(c, <<"redirect">>, "invalid_token")
          ELSE Redirect(c, <<"cookie", "redirect">>, "logged_in")
       \/ Redirect(c, <<"redirect">>, "server_error")
    /\ UNCHANGED <<stateStore, issued, svars, xvars, fvars, evars, pvars>>

NextAuth ==
    \/ Login
    \/ \E c \in Cb : CallbackArrive(c)
    \/ \E c \in Cb : FetchSettles(c)
    \/ \E c \in Cb : JsonSettles(c)

SpecAuth == InitAuth /\ [][NextAuth]_vars

\* ------------------------------------------------------- playlist cache
\* the names a caller asks for: a short one and one of 101 characters
AskedNames == {Name("a", 3, FALSE), Name("b", 101, FALSE)}

\* what the accounts hold at the start
Remotes ==
    {<<>>,
     <<Playlist(Name("a", 3, FALSE), "p1")>>,
     <<Playlist(Name("c", 4, FALSE), "p1"), Playlist(Name("b", 97, TRUE), "p2")>>}

InitPlaylists ==
    /\ userPlaylists = [u \in Users |-> NoEntry]
    /\ remote \in [Users -> Remotes]
    /\ remote["u2"] = <<>>
    /\ clock = 0
    /\ gc = [g \in G |-> NewCall]
    /\ NoAuth
    /\ NoScrape
    /\ NoExtract
    /\ NoSlug

\* if (name.length > 100) name = name.substring(0, 97) + '...'   (345-347)
Truncate(n) ==
    IF NameLength(n) > 100 /\ n.len >= 97 THEN Name(n.ch, 97, TRUE) ELSE n

\* playlists.find(p => p.name === name)
Find(playlists, name) ==
    LET S == {k \in 1..Len(playlists) : playlists[k].name = name}
    IN IF S = {} THEN Undefined ELSE playlists[MinOf(S)].id

Did(g, event) == Append(gc[g].did, event)

\* the users a call can be made for
CallUsers(g) == IF g = "g1" THEN {"u1"} ELSE Users

\* a call of getOrCreatePlaylist arrives   (lines 342-349)
StartCall(g) ==
    /\ gc[g].pc = "new"
    /\ \E u \in CallUsers(g) : \E n \in AskedNames :
          gc' = [gc EXCEPT ![g].pc = "getUserPlaylists", ![g].user = u,
                           ![g].name = Truncate(n), ![g].force = FALSE,
                           ![g].did = Did(g, <<"call">>)]
    /\ UNCHANGED <<userPlaylists, remote, clock, svars, xvars, fvars, evars, avars>>

\* mutant: the cache answers although a refresh is forced
GetUserPlaylists_IgnoreForce(g) ==
    /\ gc[g].pc = "getUserPlaylists"
    /\ LET userCache == userPlaylists[gc[g].user]
           fresh == /\ userCache # NoEntry
                    /\ clock - userCache.timestamp < playlistRefreshInterval
           facts == <<gc[g].force, userCache # NoEntry,
                      IF userCache # NoEntry THEN clock - userCache.timestamp ELSE 0>>
       IN IF fresh
          THEN gc' = [gc EXCEPT ![g].pc = "got", ![g].now = clock,
                                ![g].playlists = userCache.playlists,
                                ![g].did = Did(g, <<"cache">> \o facts)]
          ELSE gc' = [gc EXCEPT ![g].pc = "fetch", ![g].now = clock,
                                ![g].acc = <<>>, ![g].url = 1,
                                ![g].did = Did(g, <<"miss">> \o facts)]
    /\ UNCHANGED <<userPlaylists, remote, clock, svars, xvars, fvars, evars, avars>>

\* getUserPlaylists up to its first await: the cache test of line 312, or
\* the first fetch   (lines 306-321)
GetUserPlaylists(g) ==
    /\ gc[g].pc = "getUserPlaylists"
    /\ LET userCache == userPlaylists[gc[g].user]
           fresh == /\ ~gc[g].force
                    /\ userCache # NoEntry
                    /\ clock - userCache.timestamp < playlistRefreshInterval
           facts == <<gc[g].force, userCache # NoEntry,
                      IF userCache # NoEntry THEN clock - userCache.timestamp ELSE 0>>
       IN IF fresh
          THEN gc' = [gc EXCEPT ![g].pc = "got", ![g].now = clock,
                                ![g].playlists = userCache.playlists,
                                ![g].did = Did(g, <<"cache">> \o facts)]
          ELSE gc' = [gc EXCEPT ![g].pc = "fetch", ![g].now = clock,
                                ![g].acc = <<>>, ![g].url = 1,
                                ![g].did = Did(g, <<"miss">> \o facts)]
    /\ UNCHANGED <<userPlaylists, remote, clock, svars, xvars, fvars, evars, avars>>

\* a call throws: the catch of getOrCreatePlaylist logs and rethrows (392-395)
Throws(g, event) ==
    gc' = [gc EXCEPT ![g].pc = "done", ![g].out = "throw", ![g].did = Did(g, event)]

\* one turn of `while (url)`: the response of a page, one playlist a page;
\* after the last page userPlaylists.set   (lines 321-339)
FetchPage(g) ==
    /\ gc[g].pc = "fetch"
    /\ LET u == gc[g].user
           items == IF gc[g].url <= Len(remote[u])
                    THEN <<remote[u][gc[g].url]>> ELSE <<>>
           more == gc[g].url < Len(remote[u])
           all == gc[g].acc \o items
       IN \/ /\ more
             /\ gc' = [gc EXCEPT ![g].acc = all, ![g].url = @ + 1,
                                  ![g].did = Did(g, <<"page", TRUE>>)]
             /\ UNCHANGED userPlaylists
          \/ /\ ~more
             /\ userPlaylists' = [userPlaylists EXCEPT ![u] = Entry(gc[g].now, all)]
             /\ gc' = [gc EXCEPT ![g].pc = "got", ![g].acc = all, ![g].playlists = all,
                                  ![g].did = Did(g, <<"page", FALSE>>) \o <<<<"set">>>>]
          \/ Throws(g, <<"fetchFail">>) /\ UNCHANGED userPlaylists
    /\ UNCHANGED <<remote, clock, svars, xvars, fvars, evars, avars>>

\* after `await getUserPlaylists(...)`: find, then the forced refresh, the
\* return of the id found, or the create request   (lines 350-376)
Got(g) ==
    /\ gc[g].pc = "got"
    /\ LET existing == Find(gc[g].playlists, gc[g].name)
       IN IF existing # Undefined
          THEN gc' = [gc EXCEPT ![g].pc = "done", ![g].out = existing,
                                ![g].did = Did(g, <<"found", gc[g].force>>)]
          ELSE IF ~gc[g].force
          THEN gc' = [gc EXCEPT ![g].pc = "getUserPlaylists", ![g].force = TRUE,
                                ![g].did = Did(g, <<"notFound", FALSE>>)]
          ELSE gc' = [gc EXCEPT ![g].pc = "create",
                                ![g].did = Did(g, <<"notFound", TRUE>>) \o
                                           <<<<"create">>>>]
    /\ UNCHANGED <<userPlaylists, remote, clock, svars, xvars, fvars, evars, avars>>

\* the create request settles: the account has the playlist and the cache
\* gets it, or `!create.ok`, or fetch / create.json() rejects   (363-391).
\* The array pushed to at line 385 is the one this call's forced refresh
\* built at line 317: a create is only reached through line 355, so no other
\* call has pushed to it and its value is gc[g].playlists.
CreateSettles(g) ==
    /\ gc[g].pc = "create"
    /\ LET u == gc[g].user
           newPlaylist == Playlist(gc[g].name, <<"new", g>>)
       IN \/ /\ remote' = [remote EXCEPT ![u] = Append(@, newPlaylist)]
             /\ userPlaylists' = [userPlaylists EXCEPT
                    ![u] = Entry(clock, Append(gc[g].playlists, newPlaylist))]
             /\ gc' = [gc EXCEPT ![g].pc = "done", ![g].out = newPlaylist.id,
                                  ![g].playlists = Append(@, newPlaylist),
                                  ![g].did = Did(g, <<"created">>)]
          \/ /\ remote' = [remote EXCEPT ![u] = Append(@, newPlaylist)]
             /\ Throws(g, <<"jsonFail">>)
             /\ UNCHANGED userPlaylists
          \/ /\ Throws(g, <<"createFail">>)
             /\ UNCHANGED <<remote, userPlaylists>>
    /\ UNCHANGED <<clock, svars, xvars, fvars, evars, avars>>

\* four minutes pass, or five
Tick ==
    /\ \E d \in {playlistRefreshInterval - 1, playlistRefreshInterval} :
          /\ clock + d <= MaxClock
          /\ clock' = clock + d
    /\ UNCHANGED <<userPlaylists, remote, gc, svars, xvars, fvars, evars, avars>>

NextPlaylists ==
    \/ Tick
    \/ \E g \in G : StartCall(g)
    \/ \E g \in G : GetUserPlaylists(g)
    \/ \E g \in G : FetchPage(g)
    \/ \E g \in G : Got(g)
    \/ \E g \in G : CreateSettles(g)

SpecPlaylists == InitPlaylists /\ [][NextPlaylists]_vars

\* ---------------------------------------------------------------- claims
Count(i, op) == Cardinality({k \in 1..Len(log[i]) : log[i][k][1] = op})
Happened(i, op, res) == <<op, res>> \in Range(log[i])
Times(i, op, res) == Cardinality({k \in 1..Len(log[i]) : log[i][k] = <<op, res>>})
HasKey(r, key) == key \in DOMAIN r
ErrorOf(r) == IF HasKey(r, "error") THEN r.error ELSE Undefined

\* the awaited calls inside the loop's try, and those of the page setup
InnerOps == {"goto", "content", "screenshot", "evaluate"}
SetupOps ==
    {"newPage", "setViewport", "setUserAgent", "setExtraHTTPHeaders",
     "evaluateOnNewDocument", "fmt"}

\* attempts that ended in a blocked page, an empty extraction or an exception
FailedAttempts(i) ==
    Times(i, "pause", "backoff") + Times(i, "evaluate", "null") + Times(i, "catch", "inner")

\* C1: whatever each step does, the promise of scrapeTunebatData resolves
\* with an object whose success field is a boolean; it never rejects.
C1_NeverRejects ==
    \A i \in Inv :
        pc[i] = "done" =>
            /\ outcome[i].kind = "resolved"
            /\ outcome[i].value.success \in BOOLEAN

\* C2: when `which chromium` or puppeteer.launch throws, the call returns
\* {success: false, error: <message>} without a url key, and does not reject.
C2_LaunchFailureIsResult ==
    \A i \in Inv : \A op \in {"which", "launch"} :
        (pc[i] = "done" /\ Happened(i, op, "throw")) =>
            /\ outcome[i].kind = "resolved"
            /\ outcome[i].value.success = FALSE
            /\ outcome[i].value.error = ErrMsg(op)
            /\ ~HasKey(outcome[i].value, "url")

\* C3: once the browser was launched, browser.close is called exactly once,
\* and the promise settles only after that call (success, exhaustion, or an
\* exception in page setup before the loop).
C3_CloseExactlyOnce ==
    \A i \in Inv :
        /\ Count(i, "close") <= 1
        /\ browser[i] = "none" => Count(i, "close") = 0
        /\ (browser[i] # "none" /\ pc[i] = "done") => Count(i, "close") = 1
        /\ (browser[i] # "none" /\ outcome[i] # Pending) =>
               /\ Count(i, "close") = 1
               /\ browser[i] = "closed"
               /\ log[i][Len(log[i])][1] = "close"

C3_Witness ==
    \E i \in Inv :
        /\ pc[i] = "done"
        /\ Happened(i, "setViewport", "throw")
        /\ Count(i, "close") = 1
        /\ outcome[i].kind = "resolved"

\* C4: when every page the loop loads carries a block signature, the loop
\* navigates exactly 3 times, never calls the extractor, and returns the
\* failed result.
C4_AlwaysBlocked ==
    \A i \in Inv :
        ~Happened(i, "goto", "page") =>
            /\ Count(i, "goto") <= Attempts
            /\ Count(i, "evaluate") = 0
            /\ Happened(i, "return", "loop") =>
                   /\ Count(i, "goto") = Attempts
                   /\ retries[i] = 0
                   /\ result[i].success = FALSE
                   /\ result[i].error = "Failed to extract data"

C4_Witness ==
    \E i \in Inv :
        /\ pc[i] = "done"
        /\ Times(i, "goto", "blockpage") = Attempts
        /\ Times(i, "content", "sig") = Attempts
        /\ outcome[i].kind = "resolved"
        /\ ~outcome[i].value.success

\* C5: the attempt on which the extractor first returns a record is the
\* last one: it is attempt k after k-1 consumed attempts, k <= 3, nothing
\* but the return and the close follow it, and the result is success:true
\* with that record.
C5_StopsAtFirstRecord ==
    \A i \in Inv : \A p \in 1..Len(log[i]) :
        log[i][p] = <<"evaluate", "record">> =>
            /\ \A q \in (p + 1)..Len(log[i]) : log[i][q][1] \in {"return", "close"}
            /\ Count(i, "goto") = FailedAttempts(i) + 1
            /\ Count(i, "goto") = (Attempts - retries[i]) + 1
            /\ Count(i, "goto") <= Attempts
            /\ pageData[i] # Null
            /\ pageData[i] = Extract(page[i])
            /\ result[i] # NoResult =>
                   /\ result[i].success = TRUE
                   /\ result[i].data = pageData[i]
                   /\ result[i].error = Undefined
            /\ outcome[i].kind = "resolved" => outcome[i].value = result[i]

C5_Witness ==
    \E i \in Inv :
        /\ pc[i] = "done"
        /\ Happened(i, "evaluate", "record")
        /\ Count(i, "goto") = 2
        /\ outcome[i].kind = "resolved"
        /\ outcome[i].value.success

\* C6: a returned result is exactly one variant: success is true iff data is
\* the extracted record and error is undefined; success is false iff error
\* is a non-empty string and data is absent or the empty object.
C6_OneVariant ==
    \A i \in Inv :
        outcome[i].kind = "resolved" =>
            LET r == outcome[i].value
                isRecord == /\ HasKey(r, "data")
                            /\ r.data = pageData[i]
                            /\ pageData[i] # Null
                            /\ ErrorOf(r) = Undefined
                isFailure == /\ ErrorOf(r) \notin {Undefined, ""}
                             /\ ~HasKey(r, "data") \/ r.data = EmptyObject
            IN /\ r.success \in BOOLEAN
               /\ r.success <=> isRecord
               /\ ~r.success <=> isFailure

C6_Witness ==
    \E i \in Inv :
        /\ outcome[i].kind = "resolved"
        /\ ~outcome[i].value.success
        /\ ~HasKey(outcome[i].value, "data")
        /\ outcome[i].value.error = ErrMsg("newPage")

\* C7: when all 3 attempts failed (blocked, empty or thrown, in any mix) the
\* function leaves by the return statement after the loop, never by the
\* outer catch, with {success: false, url, data: {}, error: 'Failed to
\* extract data'}.
ExhaustedResult(i) ==
    [success |-> FALSE,
     url |-> BuildUrl(args[i].artistName, args[i].songName, args[i].spotifyTrackId),
     data |-> EmptyObject,
     error |-> "Failed to extract data",
     debugImagePath |-> "debug.png"]

C7_ExhaustedResult ==
    \A i \in Inv :
        FailedAttempts(i) = Attempts =>
            /\ pc[i] \in {"softPause", "while", "return", "close", "done"}
            /\ ~Happened(i, "return", "fatal")
            /\ pageData[i] = Null
            /\ pc[i] \in {"close", "done"} =>
                   /\ Happened(i, "return", "loop")
                   /\ result[i] = ExhaustedResult(i)
            /\ outcome[i].kind = "resolved" => outcome[i].value = ExhaustedResult(i)

C7_Witness ==
    \E i \in Inv :
        /\ pc[i] = "done"
        /\ Happened(i, "goto", "throw")
        /\ Happened(i, "content", "sig")
        /\ Happened(i, "evaluate", "null")
        /\ outcome[i] = Resolved(ExhaustedResult(i))

\* C8: the extractor returns null exactly when the structural pass gives an
\* empty title, artist and album, whatever the page text matches; a null
\* return consumes one attempt and goes to the short pause and the retry.
StructuralNoneFound(p) ==
    /\ getText(p.elems, TitleSelectors) = <<>>
    /\ getText(p.elems, ArtistSelectors) = <<>>
    /\ getText(p.elems, AlbumSelectors) = <<>>

JustEvaluated(i) ==
    /\ log[i] # <<>>
    /\ log[i][Len(log[i])] \in {<<"evaluate", "null">>, <<"evaluate", "record">>}

C8_NullIffNoMeta ==
    \A i \in Inv :
        JustEvaluated(i) =>
            /\ pageData[i] = Null <=> StructuralNoneFound(page[i])
            /\ pageData[i] # Null =>
                   \/ pageData[i].title # <<>>
                   \/ pageData[i].artist # <<>>
                   \/ pageData[i].album # <<>>
            /\ pageData[i] = Null =>
                   /\ pc[i] = "softPause"
                   /\ retries[i] = Attempts - FailedAttempts(i)
                   /\ FailedAttempts(i) = Count(i, "goto")

C8_Witness ==
    \E i \in Inv :
        /\ JustEvaluated(i)
        /\ pageData[i] = Null
        /\ findText(BodyText(page[i]), PatternsOf("bpm")[3]) = "120"
        /\ pc[i] = "softPause"
        /\ retries[i] = Attempts - 1

\* C9 as stated: with one of title/artist/album found and no pattern
\* matching the page text, the record has every pattern field '', explicit
\* false and an empty recommendations list.
NoPatternMatches(text) ==
    /\ \A k \in 1..Len(FieldPatterns) : \A n \in 1..Len(FieldPatterns[k][2]) :
           MatchPositions(text, FieldPatterns[k][2][n]) = {}
    /\ ~ExplicitTest(text)

C9_Case ==
    /\ xdata # NotRun
    /\ ~StructuralNoneFound(xpage)
    /\ NoPatternMatches(BodyText(xpage))

C9_Original ==
    C9_Case =>
        /\ xdata # Null
        /\ \A f \in PatternFields : xdata[f] = ""
        /\ xdata.explicit = FALSE
        /\ xdata.recommendations = <<>>

\* C9 as amended: ... every pattern field is '', explicit is false, and
\* recommendations holds one entry per card that has a track identifier
\* (the empty sequence when the page has no such card).
CardsWithId(p) == SelectSeq(p.frags, LAMBDA f : ~f.throws /\ TrackId(f) # "")

C9_Defaults ==
    C9_Case =>
        /\ xdata # Null
        /\ \A f \in PatternFields : xdata[f] = ""
        /\ xdata.explicit = FALSE
        /\ Len(xdata.recommendations) = Len(CardsWithId(xpage))
        /\ CardsWithId(xpage) = <<>> => xdata.recommendations = <<>>

C9_Witness ==
    /\ C9_Case
    /\ xpage.elems = <<Elem("h1", "", <<"x">>)>>
    /\ xpage.frags = <<>>
    /\ xdata # Null
    /\ xdata.title = <<"x">>
    /\ xdata.bpm = ""

\* C10: the recommendations are exactly the cards whose track identifier is
\* non-empty and whose reading does not throw, in their original order; 5
\* cards of which 1 has no identifier give 4 entries.
C10_Subsequence ==
    (xdata # NotRun /\ xdata # Null) =>
        LET kept == CardsWithId(xpage)
            recs == xdata.recommendations
        IN /\ Len(recs) = Len(kept)
           /\ \A k \in 1..Len(kept) :
                  /\ recs[k].spotifyId = TrackId(kept[k])
                  /\ recs[k].spotifyId # ""
                  /\ recs[k].albumArt = kept[k].img
                  /\ recs[k].title = kept[k].title

C10_Witness ==
    /\ xdata # NotRun
    /\ xdata # Null
    /\ Len(xpage.frags) = 5
    /\ Cardinality({k \in 1..5 : TrackId(xpage.frags[k]) = ""}) = 1
    /\ \A k \in 1..5 : ~xpage.frags[k].throws
    /\ xpage.frags[1] # xpage.frags[2]
    /\ Len(xdata.recommendations) = 4

\* The subject of C11: a string without a hyphen at either end and without
\* two hyphens in a row.
HasWord(s) == \E k \in 1..Len(s) : s[k] \in WordCh
NoEdgeHyphen(s) == s = <<>> \/ (s[1] \notin HyphenCh /\ s[Len(s)] \notin HyphenCh)
NoDoubleHyphen(s) ==
    \A k \in 1..(Len(s) - 1) : ~(s[k] \in HyphenCh /\ s[k + 1] \in HyphenCh)

\* C11: what fmt returns never begins or ends with a hyphen, never has two
\* hyphens in a row, and is non-empty when the input has a word character;
\* so the path segment fmt(song)-fmt(artist) of two names that each have a
\* word character is non-empty, has no hyphen at an end and no empty part
\* between hyphens.
C11_SlugShape ==
    /\ fslugs # <<>> =>
          /\ NoEdgeHyphen(fslugs[1])
          /\ NoDoubleHyphen(fslugs[1])
          /\ HasWord(fsong) => fslugs[1] # <<>>
    /\ (fpath # NoUrl /\ HasWord(fsong) /\ HasWord(fartist)) =>
          /\ fpath[2] # <<>>
          /\ NoEdgeHyphen(fpath[2])
          /\ NoDoubleHyphen(fpath[2])

\* C11's case: a song name with a hyphen at an end and a word character has
\* been slugged, and the url of two such names has been built.
C11_Witness ==
    /\ fslugs # <<>>
    /\ HasWord(fsong)
    /\ fsong[1] \in HyphenCh
    /\ fsong[Len(fsong)] \in SpaceCh
    /\ fpath # NoUrl
    /\ HasWord(fartist)
    /\ fartist[1] \in HyphenCh

\* C12: fmt applied to what fmt returned returns it unchanged.
C12_Idempotent == Len(fslugs) = 2 => fslugs[2] = fslugs[1]

\* C12's case: fmt changed the name, returned something, and was applied again.
C12_Witness ==
    /\ Len(fslugs) = 2
    /\ fslugs[1] # fsong
    /\ fslugs[1] # <<>>
    /\ \E k \in 1..Len(fslugs[1]) : fslugs[1][k] \in HyphenCh

\* What invocation i holds in its own closure: everything but debug.png.
Local(i) ==
    <<args[i], pc[i], browser[i], page[i], url[i], retries[i], pageData[i], err[i],
      result[i], outcome[i], log[i]>>

\* What invocation i's variables are when it runs alone and its calls end
\* as its own log says.
OwnRetries(i) ==
    IF Happened(i, "fmt", "ok") THEN Attempts - FailedAttempts(i) ELSE 0
OwnBrowser(i) ==
    IF Count(i, "close") > 0 THEN "closed"
    ELSE IF Happened(i, "launch", "ok") THEN "open" ELSE "none"
OwnData(i) == IF Happened(i, "evaluate", "record") THEN Extract(page[i]) ELSE Null
OwnResult(i) ==
    IF Happened(i, "return", "loop")
    THEN [success |-> OwnData(i) # Null,
          url |-> BuildUrl(args[i].artistName, args[i].songName,
                           args[i].spotifyTrackId),
          data |-> IF OwnData(i) # Null THEN OwnData(i) ELSE EmptyObject,
          error |-> IF OwnData(i) = Null THEN "Failed to extract data" ELSE Undefined,
          debugImagePath |-> "debug.png"]
    ELSE IF Happened(i, "return", "fatal")
    THEN [success |-> FALSE,
          error |-> ErrMsg(CHOOSE op \in SetupOps : Happened(i, op, "throw")),
          debugImagePath |-> "debug.png"]
    ELSE NoResult
RunsAsAlone(i) ==
    /\ retries[i] = OwnRetries(i)
    /\ browser[i] = OwnBrowser(i)
    /\ pageData[i] = OwnData(i)
    /\ result[i] = OwnResult(i)
    /\ Count(i, "goto") <= Attempts
    /\ Count(i, "close") <= 1
    /\ pc[i] = "done" => outcome[i] = Resolved(OwnResult(i))

\* C13: with two invocations interleaved at their awaits, every step changes
\* the variables of one invocation only (none navigates or closes the
\* other's browser, none touches the other's retries or result), and each
\* invocation's attempts, result and single close are what its own calls'
\* outcomes give when it runs alone; debug.png is the only thing both write.
C13_Independent ==
    /\ [](\A i \in Inv : RunsAsAlone(i))
    /\ [][\A i \in Inv : \A j \in Inv \ {i} :
              Local(i)' = Local(i) \/ Local(j)' = Local(j)]_vars

\* C13's case: both invocations are inside their loops at once with a
\* different number of attempts behind them, and the second has overwritten
\* the screenshot the first wrote.
C13_Witness ==
    /\ pc["i1"] = "evaluate"
    /\ Count("i1", "goto") = 1
    /\ pc["i2"] = "settle"
    /\ Count("i2", "goto") = 3
    /\ Happened("i2", "screenshot", "ok")
    /\ debugFile = "i2"

\* the retry loop has been entered / has been left
LoopEntered(i) == Happened(i, "fmt", "ok")
LoopLeft(i) ==
    /\ pc[i] \in {"return", "close", "done"}
    /\ \/ pageData[i] # Null
       \/ pageData[i] = Null /\ retries[i] = 0

\* C14: when every awaited call eventually completes or throws, an
\* invocation that entered the retry loop eventually leaves it, with a
\* record (succeeded) or with no attempts left (exhausted), and it never
\* navigates more than three times.
C14_LoopTerminates ==
    /\ [](\A i \in Inv : Count(i, "goto") <= Attempts)
    /\ \A i \in Inv : LoopEntered(i) ~> LoopLeft(i)

\* C14's case: the loop was left after three attempts that failed in three
\* different ways.
C14_Witness ==
    \E i \in Inv :
        /\ LoopLeft(i)
        /\ Count(i, "goto") = Attempts
        /\ Happened(i, "pause", "backoff")
        /\ Happened(i, "evaluate", "null")
        /\ Happened(i, "catch", "inner")

\* the events of i's log where a call of the given set threw
ThrowsOf(i, ops) ==
    {k \in 1..Len(log[i]) : log[i][k][1] \in ops /\ log[i][k][2] = "throw"}

\* C15: an exception of goto, content, screenshot or the extraction is
\* handled by the loop's own catch at once and costs one attempt; its
\* message never becomes the result's error and the outer catch is not
\* entered for it. The outer catch is entered only for an exception of the
\* page setup or of building the url, and the result then carries that
\* exception's message.
C15_InnerCaught ==
    \A i \in Inv :
        /\ \A k \in ThrowsOf(i, InnerOps) :
              IF k < Len(log[i])
              THEN log[i][k + 1] = <<"catch", "inner">>
              ELSE pc[i] = "catch"
        /\ Times(i, "catch", "inner") =
              Cardinality(ThrowsOf(i, InnerOps)) - (IF pc[i] = "catch" THEN 1 ELSE 0)
        /\ LoopEntered(i) => retries[i] = Attempts - FailedAttempts(i)
        /\ ThrowsOf(i, InnerOps) # {} =>
              /\ pc[i] # "fatal"
              /\ ~Happened(i, "return", "fatal")
              /\ ErrorOf(result[i]) \notin {ErrMsg(op) : op \in InnerOps}
        /\ (pc[i] = "fatal" \/ Happened(i, "return", "fatal")) =>
              \E op \in SetupOps :
                  /\ Happened(i, op, "throw")
                  /\ err[i] = ErrMsg(op)
                  /\ result[i] # NoResult => result[i].error = ErrMsg(op)

\* C15's case: all three attempts threw, in navigation, in the screenshot
\* and in the extraction, and the call returned the loop's result.
C15_Witness ==
    \E i \in Inv :
        /\ pc[i] = "done"
        /\ Happened(i, "goto", "throw")
        /\ Happened(i, "screenshot", "throw")
        /\ Happened(i, "evaluate", "throw")
        /\ Happened(i, "return", "loop")
        /\ outcome[i].kind = "resolved"
        /\ outcome[i].value.error = "Failed to extract data"

\* C16: retries is 3 when the loop is entered and stays within 0..3; it is
\* 3 less the number of failed attempts (blocked page, empty extraction,
\* exception), so each of them took exactly one off and the attempt that
\* extracted a record took none; at the loop head the navigations made plus
\* retries is 3; and no navigation is pending or made when retries is 0.
C16_Budget ==
    \A i \in Inv :
        /\ retries[i] \in 0..Attempts
        /\ LoopEntered(i) =>
              /\ retries[i] + FailedAttempts(i) = Attempts
              /\ Count(i, "goto") <= FailedAttempts(i) + 1
              /\ pc[i] = "while" => Count(i, "goto") + retries[i] = Attempts
              /\ pc[i] \in {"goto", "settle", "content", "screenshot", "evaluate"} =>
                    retries[i] > 0
              /\ Happened(i, "evaluate", "record") =>
                    /\ retries[i] > 0
                    /\ Count(i, "goto") + retries[i] = Attempts + 1
        /\ ~LoopEntered(i) => Count(i, "goto") = 0

\* C16's case: two attempts failed, one by a block page and one by an
\* exception, the third extracted a record, and one attempt is left.
C16_Witness ==
    \E i \in Inv :
        /\ pc[i] = "return"
        /\ Happened(i, "evaluate", "record")
        /\ Happened(i, "pause", "backoff")
        /\ Happened(i, "catch", "inner")
        /\ Count(i, "goto") = Attempts
        /\ retries[i] = 1

\* an attempt of i is over: it stands at the loop head or behind the loop
BetweenAttempts(i) == pc[i] \in {"while", "return", "close", "done"}

\* C17: in every attempt that read the page content and looked for the
\* block signatures, found or not, page.screenshot was called; and every
\* result the call resolves with has the screenshot path.
C17_ScreenshotEveryInspection ==
    \A i \in Inv :
        /\ BetweenAttempts(i) =>
              Count(i, "screenshot") =
                  Times(i, "content", "sig") + Times(i, "content", "clean")
        /\ outcome[i].kind = "resolved" =>
              /\ HasKey(outcome[i].value, "debugImagePath")
              /\ outcome[i].value.debugImagePath = "debug.png"

\* two finished runs with the same arguments on a site that answers every
\* navigation with the same page, where no call other than the screenshot
\* threw
SameButScreenshot(i, j) ==
    /\ pc[i] = "done" /\ pc[j] = "done"
    /\ outcome[i].kind = "resolved" /\ outcome[j].kind = "resolved"
    /\ args[i] = args[j]
    /\ Cardinality(Served(site)) = 1
    /\ ThrowsOf(i, Faults \ {"screenshot"}) = {}
    /\ ThrowsOf(j, Faults \ {"screenshot"}) = {}

\* C18: two runs that differ only in whether page.screenshot succeeded or
\* threw return the same success flag and data after the same number of
\* navigations.
C18_ScreenshotDiagnostic ==
    \A i, j \in Inv :
        SameButScreenshot(i, j) =>
            /\ outcome[i].value.success = outcome[j].value.success
            /\ outcome[i].value.data = outcome[j].value.data
            /\ Count(i, "goto") = Count(j, "goto")

ConfigOps ==
    {"setViewport", "setUserAgent", "setExtraHTTPHeaders", "evaluateOnNewDocument"}

\* C19: each of setViewport, setUserAgent, setExtraHTTPHeaders and
\* evaluateOnNewDocument is called at most once per invocation; before every
\* navigation each of them has completed, once; and none is called after a
\* navigation.
C19_ConfiguredOnce ==
    \A i \in Inv : \A op \in ConfigOps :
        /\ Count(i, op) <= 1
        /\ \A k \in 1..Len(log[i]) :
              log[i][k][1] = "goto" =>
                  /\ \E m \in 1..(k - 1) : log[i][m] = <<op, "ok">>
                  /\ \A m \in k..Len(log[i]) : log[i][m][1] # op
        /\ pc[i] = "goto" => Times(i, op, "ok") = 1

\* C19's case: three navigations were made, after failures of each kind.
C19_Witness ==
    \E i \in Inv :
        /\ Count(i, "goto") = Attempts
        /\ Happened(i, "pause", "backoff")
        /\ Happened(i, "pause", "soft")
        /\ \A op \in ConfigOps : Times(i, op, "ok") = 1

\* attempts left after the k-th event of i's log
LeftAfter(i, k) ==
    Attempts - Cardinality({m \in 1..k :
        log[i][m] \in {<<"pause", "backoff">>, <<"evaluate", "null">>,
                       <<"catch", "inner">>}})

\* C20: after the loop's catch handled an exception, the 4.5-6 s pause is
\* the next thing that happens exactly when attempts remain; when none
\* remain the next thing is the return of the loop's result; and that pause
\* happens nowhere else.
C20_ErrorPause ==
    \A i \in Inv : \A k \in 1..Len(log[i]) :
        /\ log[i][k] = <<"catch", "inner">> =>
              IF k < Len(log[i])
              THEN log[i][k + 1] =
                       IF LeftAfter(i, k) > 0 THEN <<"pause", "error">>
                       ELSE <<"return", "loop">>
              ELSE IF LeftAfter(i, k) > 0 THEN pc[i] = "errPause"
                   ELSE pc[i] \in {"while", "return"}
        /\ log[i][k] = <<"pause", "error">> =>
              /\ k > 1
              /\ log[i][k - 1] = <<"catch", "inner">>
              /\ LeftAfter(i, k) > 0

\* C20's case: an exception with attempts left was followed by the pause,
\* and the exception of the last attempt was followed by the return.
C20_Witness ==
    \E i \in Inv : \E k \in 1..(Len(log[i]) - 1) :
        /\ log[i][k] = <<"catch", "inner">>
        /\ log[i][k + 1] = <<"return", "loop">>
        /\ Happened(i, "pause", "error")

\* the capture of the first pattern, in the field's order, that matches
\* somewhere in the text; '' when none does
FirstMatching(text, patterns) ==
    LET M == {k \in 1..Len(patterns) : MatchPositions(text, patterns[k]) # {}}
    IN IF M = {} THEN "" ELSE findText(text, patterns[MinOf(M)])

\* C21: each pattern-derived field of the record is the capture of the
\* first pattern of its list that matches anywhere in the body text,
\* wherever the forms stand in the text, and '' when none matches; the text
\* "Key: F Minor 120 BPM Energy: 75 Energy" gives key "F Minor", bpm "120"
\* and energy "75".
C21_FirstPatternWins ==
    xdata \notin {NotRun, Null} =>
        /\ \A key \in PatternFields :
              xdata[key] = FirstMatching(BodyText(xpage), PatternsOf(key))
        /\ xpage = ExamplePage =>
              /\ xdata.key = "F Minor"
              /\ xdata.bpm = "120"
              /\ xdata.energy = "75"

\* C21's case: the bare form of the key stands in the text before the
\* labelled form, and the record has the labelled form's capture.
C21_Witness ==
    /\ xdata \notin {NotRun, Null}
    /\ findText(BodyText(xpage), Bare("key")) = "C Major"
    /\ findText(BodyText(xpage), Labelled({"Key:"}, "key")) = "F Minor"
    /\ xdata.key = "F Minor"

\* the first image of the document that satisfies Q, as albumArt reads it
FirstImageSrc(doc, Q(_)) ==
    LET images == DocumentImages(doc)
    IN IF \A k \in 1..Len(images) : ~Q(images[k]) THEN {""}
       ELSE {images[k].src : k \in {n \in 1..Len(images) :
                                      Q(images[n]) /\ \A j \in 1..(n - 1) : ~Q(images[j])}}

AlbumAnyCase(img) == HasAlbumAnyCase(img.alt) \/ HasAlbumAnyCase(img.src)
AlbumAsWritten(img) ==
    \/ img.alt \in {"album cover"}
    \/ img.alt \in {"Album cover"}
    \/ img.src \in {"/album/a.png"}

\* C22 as stated: albumArt is the src of the first image, in document
\* order, whose alt or src contains "album" in any letter case, and '' when
\* there is none.
C22_Original ==
    xdata \notin {NotRun, Null} =>
        xdata.albumArt \in FirstImageSrc(xpage, AlbumAnyCase)

\* C22: albumArt is the src of the first image, in document order, whose alt
\* contains "album" or "Album" or whose src contains "album", each in
\* exactly that letter case, and '' when there is none.
C22_AsWritten ==
    xdata \notin {NotRun, Null} =>
        xdata.albumArt \in FirstImageSrc(xpage, AlbumAsWritten)

\* C22's case: an image with "ALBUM" in its alt and one with "Album" in its
\* src stand before the image whose src became albumArt.
C22_Witness ==
    /\ xdata \notin {NotRun, Null}
    /\ Len(xpage.imgs) = 3
    /\ xpage.imgs[1].alt = "ALBUM COVER"
    /\ xpage.imgs[2].src = "/Album/b.png"
    /\ xdata.albumArt = xpage.imgs[3].src
    /\ xdata.albumArt # ""

\* C23: every attempt that found a block signature is followed at once by
\* the 4-6 s pause, and every attempt whose extraction returned null by the
\* 2.5-3.5 s pause, the last attempt included; so when the loop's result is
\* returned without a record, what came just before is one of these pauses,
\* or the loop's catch, which alone goes without a pause when no attempts
\* remain.
C23_PauseOnLastAttempt ==
    \A i \in Inv : \A k \in 1..Len(log[i]) :
        /\ log[i][k] = <<"content", "sig">> =>
              IF k < Len(log[i]) THEN log[i][k + 1] = <<"pause", "backoff">>
              ELSE pc[i] = "backoff"
        /\ log[i][k] = <<"evaluate", "null">> =>
              IF k < Len(log[i]) THEN log[i][k + 1] = <<"pause", "soft">>
              ELSE pc[i] = "softPause"
        /\ (log[i][k] = <<"return", "loop">> /\ pageData[i] = Null) =>
              /\ k > 1
              /\ LeftAfter(i, k) = 0
              /\ log[i][k - 1] \in
                    {<<"pause", "backoff">>, <<"pause", "soft">>, <<"catch", "inner">>}
              /\ log[i][k - 1][1] = "pause" =>
                    log[i][k - 2] \in {<<"content", "sig">>, <<"evaluate", "null">>}

\* C23's case: the third attempt returned null, the soft pause was taken
\* with no attempts left, and the result was returned after it; an earlier
\* attempt was blocked.
C23_Witness ==
    \E i \in Inv : \E k \in 3..Len(log[i]) :
        /\ log[i][k] = <<"return", "loop">>
        /\ log[i][k - 1] = <<"pause", "soft">>
        /\ log[i][k - 2] = <<"evaluate", "null">>
        /\ LeftAfter(i, k - 2) = 0
        /\ Happened(i, "pause", "backoff")

\* the /callback requests that started a token exchange with state s
Exchanged(s) == {c \in Cb : cb[c].state = s /\ "fetch" \in Range(cb[c].did)}

\* C24: for each state value, the callbacks that were accepted (started a
\* token exchange) are never more than the times /login issued it, so a
\* value issued once is accepted at most once and one never issued never;
\* a callback without a state, or refused, answers state_mismatch and makes
\* no token exchange; an accepted callback deleted its state before it
\* called fetch, and a state in the store is one issued more often than
\* accepted.
C24_StateOnce ==
    /\ \A s \in States :
          /\ Cardinality(Exchanged(s)) <= issued[s]
          /\ s \in stateStore => Cardinality(Exchanged(s)) < issued[s]
    /\ \A c \in Cb :
          /\ cb[c].pc # "new" =>
                \/ cb[c].out = "state_mismatch" /\ cb[c].did = <<"redirect">>
                \/ /\ cb[c].out # "state_mismatch"
                   /\ cb[c].state \in States
                   /\ Len(cb[c].did) >= 2
                   /\ cb[c].did[1] = "delete"
                   /\ cb[c].did[2] = "fetch"
          /\ (cb[c].pc # "new" /\ cb[c].state = NoState) => cb[c].out = "state_mismatch"

\* C24's case: a state was issued once, one callback with it is awaiting
\* its token exchange, and a second callback with the same state, arrived
\* meanwhile, was answered state_mismatch.
C24_Witness ==
    \E s \in States : \E c, d \in Cb :
        /\ issued[s] = 1
        /\ cb[c].state = s /\ cb[c].pc = "fetch"
        /\ cb[d].state = s /\ cb[d].out = "state_mismatch"

\* the kind of the k-th thing call g did, and of the last
Kind(g, k) == gc[g].did[k][1]
LastKind(d) == IF d = <<>> THEN "none" ELSE d[Len(d)][1]

\* what the calls did so far agrees with C25
CacheDiscipline(g) ==
    \A k \in 1..Len(gc[g].did) :
        LET e == gc[g].did[k]
            later == k < Len(gc[g].did)
        IN /\ e[1] \in {"cache", "miss"} =>
                 /\ e[1] = "cache" <=>
                       (~e[2] /\ e[3] /\ e[4] < playlistRefreshInterval)
                 /\ (later /\ e[1] = "cache") =>
                       Kind(g, k + 1) \in {"found", "notFound"}
                 /\ (later /\ e[1] = "miss") =>
                       Kind(g, k + 1) \in {"page", "fetchFail"}
           /\ e[1] = "set" =>
                 /\ gc[g].did[k - 1] = <<"page", FALSE>>
                 /\ \E m \in 1..(k - 1) :
                       /\ Kind(g, m) = "miss"
                       /\ \A j \in (m + 1)..(k - 1) : Kind(g, j) = "page"
           /\ e[1] = "create" =>
                 /\ k > 3
                 /\ gc[g].did[k - 1] = <<"notFound", TRUE>>
                 /\ Kind(g, k - 2) = "set"
                 /\ \E m \in 1..(k - 3) :
                       /\ Kind(g, m) = "miss"
                       /\ gc[g].did[m][2]
                       /\ \A j \in (m + 1)..(k - 3) : Kind(g, j) = "page"

\* a step replaces an entry only for a call that stored its last page or
\* its created playlist, and a failing call replaces none
EntryDiscipline ==
    /\ \A u \in Users :
          userPlaylists'[u] # userPlaylists[u] =>
              \E g \in G :
                  /\ gc'[g].user = u
                  /\ gc'[g].did # gc[g].did
                  /\ LastKind(gc'[g].did) \in {"set", "created"}
                  /\ userPlaylists'[u].playlists = gc'[g].playlists
    /\ \A h \in G :
          (gc'[h].did # gc[h].did /\
           LastKind(gc'[h].did) \in {"fetchFail", "createFail", "jsonFail"}) =>
              userPlaylists' = userPlaylists

\* C25: getUserPlaylists answers from the cache, with no request, exactly
\* when the refresh is not forced and the user has an entry younger than
\* five minutes; an entry is replaced only when a call for that user has
\* fetched its last page, every page before it having succeeded, or has
\* created a playlist, and a failed fetch changes no entry; and a create
\* request is pending only after this call's forced refresh was stored and
\* had no playlist of the (truncated, at most 100 characters) name.
C25_CacheAndCreate ==
    /\ [](\A g \in G :
            /\ CacheDiscipline(g)
            /\ gc[g].pc = "create" =>
                  /\ gc[g].force
                  /\ Find(gc[g].playlists, gc[g].name) = Undefined
                  /\ NameLength(gc[g].name) <= 100)
    /\ [][EntryDiscipline]_vars

\* C25's case: a call was answered from a four-minute-old entry without a
\* request, did not find the name, forced a refresh of two pages, and
\* created the playlist.
C25_Witness ==
    \E g \in G :
        /\ gc[g].pc = "done"
        /\ gc[g].did[2] = <<"cache", FALSE, TRUE, playlistRefreshInterval - 1>>
        /\ LastKind(gc[g].did) = "created"
        /\ <<"page", TRUE>> \in Range(gc[g].did)

====
